---- MODULE Spec2Model ----
(***************************************************************************)
(* Model of custom_components/clever_api/clever/clever.py: the Clever      *)
(* transport (_request, close, __aenter__, __aexit__), the Auth flow and   *)
(* the Subscription queries, run by concurrent asyncio tasks against one   *)
(* component instance.  A coroutine is cut at its await points: the part   *)
(* of a method up to its first await is one action, and the step that      *)
(* resumes it runs to the next await or to the end of the method.          *)
(***************************************************************************)
EXTENDS Integers, Sequences, FiniteSets, TLC

VARIABLES
    request_timeout,    \* Clever.request_timeout
    session,            \* Clever.session (NoSession models None)
    _close_session,     \* Clever._close_session
    api_token,          \* Subscription.api_token
    ctor,               \* the arguments the component was constructed with
    callers,            \* the tasks that call the component
    observed,           \* the tasks whose completed calls are recorded in done
    pc,                 \* per task: the await its coroutine is suspended at
    call,               \* per task: the method it runs and that method's locals
    done,               \* per observed task: its last completed call and outcome
    scope,              \* per task: its position relative to `async with`
    target,             \* per task: the object __aenter__ handed to the body
    created,            \* number of ClientSession() constructions
    sessionCloseCalls,  \* per session: number of session.close() invocations
    closeCalls          \* number of close() invocations that found a session

vars == <<request_timeout, session, _close_session, api_token, ctor, callers,
          observed, pc, call, done, scope, target, created, sessionCloseCalls,
          closeCalls>>

(***************************************************************************)
(* Bounds                                                                  *)
(***************************************************************************)
MaxCloseCalls == 3
MaxSessions == 2

Tasks == {"t1", "t2"}

(***************************************************************************)
(* Values                                                                  *)
(***************************************************************************)
None == [None |-> TRUE]
NoneStr == "None"

NoSession == 0
ExtSession == 1
SessionIds == 1 .. (MaxSessions + 2)

\* the n-th session the component constructs
ClientSession(n) == ExtSession + n + 1

Self == "self"

METH_GET == "GET"
METH_POST == "POST"
AUTHORIZATION_HEADER == "Basic <static>"

TimeoutMsg == "Timeout while connecting to Clever backend"

Timeouts == {10}
Tokens == {"tok"}
Emails == {"a@b.dk"}
Names == {"Ann"}
Codes == {"c1", "c2"}
Secrets == {"abc123"}

\* query strings of the links handed to verify_link
Links == { << <<"secretCode", "c1">> >>,
           << <<"email", "a@b.dk">>, <<"secretCode", "c2">> >>,
           << <<"secretCode", "c1">>, <<"secretCode", "c2">> >>,
           << <<"email", "a@b.dk">> >> }

\* decoded JSON bodies the backend may answer with
Responses == { [data |-> [result |-> "Verified"]],
               [data |-> [result |-> "Expired"]],
               [result |-> "Verified"],
               [result |-> "Expired"],
               [data |-> [userSecret |-> "null",
                          verificationResponse |-> [result |-> "Denied"]]],
               [data |-> [userSecret |-> "abc123"]],
               [data |-> [userSecret |-> "null"]],
               [userSecret |-> "null", verificationResponse |-> [result |-> "Denied"]],
               [userSecret |-> "abc123"],
               [data |-> None, status_message |-> "No token"],
               [data |-> [token |-> "xyz"]] }

\* exceptions the transport library raises inside the try block
TimeoutError == [type |-> "TimeoutError", msg |-> ""]
StatusError == [type |-> "ClientResponseError", msg |-> "404"]
JsonError == [type |-> "ContentTypeError", msg |-> "unexpected mimetype"]
ResetError == [type |-> "ClientConnectionError", msg |-> "Connection reset by peer"]
ClosedError == [type |-> "RuntimeError", msg |-> "Session is closed"]
NoExc == [type |-> "", msg |-> ""]

RequestFailures == {TimeoutError, ResetError, ClosedError}
JsonFailures == {TimeoutError, ResetError, JsonError}

Return(v) == [kind |-> "return", type |-> "", msg |-> "", value |-> v]
Raise(t, m) == [kind |-> "raise", type |-> t, msg |-> m, value |-> None]

NoCall == [op |-> "", auth_link |-> << >>, secret_code |-> "", method |-> "",
           url |-> << >>, data |-> None, headers |-> None, requests |-> 0]
NoResult == [kind |-> "none", type |-> "", msg |-> "", value |-> None]
NoDone == [call |-> NoCall, phase |-> "", exc |-> NoExc, resp |-> None,
           result |-> NoResult]

Has(obj, key) == key \in DOMAIN obj

\* dict item assignment: obj[key] = value
SetItem(obj, key, value) ==
    [k \in DOMAIN obj \cup {key} |-> IF k = key THEN value ELSE obj[k]]

\* yarl's URL(link).query[key]: the first value under the key
RECURSIVE Query(_, _)
Query(q, key) ==
    IF q = << >> THEN NoneStr
    ELSE IF Head(q)[1] = key THEN Head(q)[2]
    ELSE Query(Tail(q), key)

HasQuery(q, key) == \E i \in 1 .. Len(q) : q[i][1] = key

\* the response models: object-valued and string-valued fields of each
ObjFields(cls) == {"data"}
StrFields(cls) ==
    CASE cls = "VerifyLink" -> {"secret_code"}
      [] cls = "ObtainApiToken" -> {"status_message"}
      [] OTHER -> {}

\* Model.parse_obj(obj): the declared fields, None where the object has none
parse_obj(cls, obj) ==
    [f \in ObjFields(cls) \cup StrFields(cls) |->
        IF Has(obj, f) THEN obj[f]
        ELSE IF f \in ObjFields(cls) THEN None ELSE NoneStr]

(***************************************************************************)
(* Clever                                                                  *)
(***************************************************************************)
\* the workloads: one caller whose calls are recorded, or concurrent callers
Workloads == { [callers |-> {"t1"}, observed |-> {"t1"}],
               [callers |-> Tasks, observed |-> {}] }

\* lines 39-45, 155: the dataclass constructor
Init ==
    /\ request_timeout \in Timeouts
    /\ session \in {NoSession, ExtSession}
    /\ _close_session \in BOOLEAN
    /\ api_token \in Tokens \cup {NoneStr}
    /\ ctor = [request_timeout |-> request_timeout, session |-> session,
               _close_session |-> _close_session, api_token |-> api_token]
    /\ \E w \in Workloads : callers = w.callers /\ observed = w.observed
    /\ pc = [t \in Tasks |-> "idle"]
    /\ call = [t \in Tasks |-> NoCall]
    /\ done = [t \in Tasks |-> NoDone]
    /\ scope = [t \in Tasks |-> "out"]
    /\ target = [t \in Tasks |-> ""]
    /\ created = 0
    /\ sessionCloseCalls = [s \in SessionIds |-> 0]
    /\ closeCalls = 0

\* what an observed task's completed call leaves in done
Observe(t, c, where, e, resp, res) ==
    done' = [done EXCEPT ![t] =
                IF t \in observed
                THEN [call |-> c, phase |-> where, exc |-> e, resp |-> resp,
                      result |-> res]
                ELSE @]

\* a request that constructs a session every time
NeedsSession_Always == TRUE

\* line 61: no session yet
NeedsSession == session = NoSession

\* a creation that leaves the ownership flag as it was
OwnedAfterCreate_Unset == _close_session

\* line 63: the ownership flag once a session was created
OwnedAfterCreate == TRUE

\* lines 55-72: _request up to `await self.session.request(...)`
_request(t, op, auth_link, secret_code, url, method, data) ==
    /\ pc[t] = "idle"
    /\ NeedsSession => created < MaxSessions
    /\ session' = IF NeedsSession THEN ClientSession(created) ELSE session
    /\ _close_session' = IF NeedsSession THEN OwnedAfterCreate ELSE _close_session
    /\ created' = IF NeedsSession THEN created + 1 ELSE created
    /\ call' = [call EXCEPT ![t] =
                   [op |-> op, auth_link |-> auth_link, secret_code |-> secret_code,
                    method |-> method, url |-> url, data |-> data,
                    headers |-> [authorization |-> AUTHORIZATION_HEADER],
                    requests |-> 1]]
    /\ pc' = [pc EXCEPT ![t] = "request"]
    /\ done' = [done EXCEPT ![t] = NoDone]
    /\ UNCHANGED <<request_timeout, api_token, ctor, callers, observed, scope,
                   target, sessionCloseCalls, closeCalls>>

\* a handler that re-raises the timeout like any other exception
_request_except_Reraise(e) == Raise(e.type, e.msg)

\* a handler that reports every exception as a connection error
_request_except_AllConnection(e) == Raise("CleverConnectionError", TimeoutMsg)

\* lines 78-84: what _request raises for an exception of the try block
_request_except(e) ==
    IF e.type = "TimeoutError"
    THEN Raise("CleverConnectionError", TimeoutMsg)
    ELSE Raise(e.type, e.msg)

\* lines 78-84: the session.request() calls an invocation has made when it raises
RequestsAfterFailure(c, e) == c.requests

\* a close() that ignores the ownership flag
ShouldClose_IgnoresOwnership == session # NoSession

\* a close() that closes its session the first time only
ShouldClose_Once ==
    session # NoSession /\ _close_session /\ sessionCloseCalls[session] = 0

\* line 89: close() closes the session it holds and owns
ShouldClose == session # NoSession /\ _close_session

\* lines 86-90: close(), up to `await self.session.close()` when it closes
CloseBody(t) ==
    /\ pc[t] = "idle"
    /\ session # NoSession => closeCalls < MaxCloseCalls
    /\ closeCalls' = IF session # NoSession THEN closeCalls + 1 ELSE closeCalls
    /\ sessionCloseCalls' =
           IF ShouldClose
           THEN [sessionCloseCalls EXCEPT ![session] = @ + 1]
           ELSE sessionCloseCalls
    /\ pc' = [pc EXCEPT ![t] = IF ShouldClose THEN "closing" ELSE "idle"]
    /\ UNCHANGED <<request_timeout, session, _close_session, api_token, ctor,
                   callers, observed, call, target, created>>

\* a caller awaits close() itself
close(t) ==
    /\ CloseBody(t)
    /\ done' = [done EXCEPT ![t] = NoDone]
    /\ UNCHANGED scope

\* lines 92-94: __aenter__ returns self
__aenter__ == Self

\* `async with component as target:` enters the scope
Enter(t) ==
    /\ pc[t] = "idle"
    /\ scope[t] \in {"out", "left", "left_raise"}
    /\ scope' = [scope EXCEPT ![t] = "in"]
    /\ target' = [target EXCEPT ![t] = __aenter__]
    /\ UNCHANGED <<request_timeout, session, _close_session, api_token, ctor,
                   callers, observed, pc, call, done, created, sessionCloseCalls,
                   closeCalls>>

\* an __aexit__ that closes only when the body ended without an error
__aexit__OnSuccessOnly(t, raised) ==
    /\ scope[t] = "in"
    /\ IF raised
       THEN /\ pc[t] = "idle"
            /\ scope' = [scope EXCEPT ![t] = "left_raise"]
            /\ UNCHANGED <<request_timeout, session, _close_session, api_token,
                           ctor, callers, observed, pc, call, target, created,
                           sessionCloseCalls, closeCalls>>
       ELSE /\ CloseBody(t)
            /\ scope' = [scope EXCEPT ![t] = IF ShouldClose THEN "exiting" ELSE "left"]
    /\ UNCHANGED done

\* lines 96-98: __aexit__ awaits close(), whether the body ended or raised
__aexit__(t, raised) ==
    /\ scope[t] = "in"
    /\ CloseBody(t)
    /\ scope' = [scope EXCEPT ![t] =
                    IF ShouldClose
                    THEN (IF raised THEN "exiting_raise" ELSE "exiting")
                    ELSE (IF raised THEN "left_raise" ELSE "left")]
    /\ UNCHANGED done

\* session.close() completes, close() returns, and so does __aexit__
CloseReturns(t) ==
    /\ pc[t] = "closing"
    /\ pc' = [pc EXCEPT ![t] = "idle"]
    /\ scope' = [scope EXCEPT ![t] =
                    CASE @ = "exiting" -> "left"
                      [] @ = "exiting_raise" -> "left_raise"
                      [] OTHER -> @]
    /\ UNCHANGED <<request_timeout, session, _close_session, api_token, ctor,
                   callers, observed, call, done, target, created,
                   sessionCloseCalls, closeCalls>>

(***************************************************************************)
(* Auth                                                                    *)
(***************************************************************************)
\* lines 104-107
send_auth_email(t, email) ==
    _request(t, "send_auth_email", << >>, "",
             <<"SEND_AUTH_EMAIL", "email", email>>, METH_GET, None)

\* line 108
send_auth_email_resume(resp) == Return(parse_obj("SendEmail", resp))

\* lines 110-114: a link without a secretCode parameter raises before any request
verify_link(t, auth_link, email) ==
    IF HasQuery(auth_link, "secretCode")
    THEN _request(t, "verify_link", auth_link, Query(auth_link, "secretCode"),
                  <<"VERIFY_LINK", "token", Query(auth_link, "secretCode"),
                    "email", email>>, METH_GET, None)
    ELSE /\ pc[t] = "idle"
         /\ Observe(t, [NoCall EXCEPT !.op = "verify_link", !.auth_link = auth_link],
                    "", NoExc, None, Raise("KeyError", "secretCode"))
         /\ UNCHANGED <<request_timeout, session, _close_session, api_token, ctor,
                        callers, observed, pc, call, scope, target, created,
                        sessionCloseCalls, closeCalls>>

\* a test for any non-empty result
IsVerified_NonEmpty(data) == data["result"] # ""

\* line 117: the link counts as verified
IsVerified(data) == data["result"] = "Verified"

\* lines 115-120
verify_link_resume(secret_code, resp) ==
    LET model == parse_obj("VerifyLink", SetItem(resp, "secret_code", secret_code))
    IN  IF model.data = None
        THEN Raise("TypeError", "'NoneType' object is not subscriptable")
        ELSE IF ~Has(model.data, "result") THEN Raise("KeyError", "result")
        ELSE IF ~IsVerified(model.data) THEN Raise("CleverError", model.data["result"])
        ELSE Return(model)

\* lines 122-133
obtain_user_secret(t, email, first_name, last_name, secret_code) ==
    _request(t, "obtain_user_secret", << >>, secret_code, <<"OBTAIN_USER_SECRET">>,
             METH_POST, [email |-> email, firstName |-> first_name,
                         lastName |-> last_name, token |-> secret_code])

\* a test against None in place of the string "null"
IsNullSecret_None(data) == data["userSecret"] = NoneStr

\* line 135: the backend gave no user secret
IsNullSecret(data) == data["userSecret"] = "null"

\* lines 134-138
obtain_user_secret_resume(resp) ==
    LET model == parse_obj("ObtainUserSecret", resp)
    IN  IF model.data = None
        THEN Raise("TypeError", "'NoneType' object is not subscriptable")
        ELSE IF ~Has(model.data, "userSecret") THEN Raise("KeyError", "userSecret")
        ELSE IF IsNullSecret(model.data)
        THEN IF ~Has(model.data, "verificationResponse")
             THEN Raise("KeyError", "verificationResponse")
             ELSE Raise("CleverError", model.data["verificationResponse"]["result"])
        ELSE Return(model)

\* lines 140-143
obtain_api_token(t, user_secret, email) ==
    _request(t, "obtain_api_token", << >>, "",
             <<"OBTAIN_API_TOKEN", "secret", user_secret, "email", email>>,
             METH_GET, None)

\* a test of the status message in place of the data payload
HasNoData_ByStatus(model) == model.status_message # NoneStr

\* line 145: the response carries no data payload
HasNoData(model) == model.data = None

\* lines 144-148
obtain_api_token_resume(resp) ==
    LET model == parse_obj("ObtainApiToken", resp)
    IN  IF HasNoData(model)
        THEN Raise("CleverError", model.status_message)
        ELSE Return(model)

(***************************************************************************)
(* Subscription                                                            *)
(***************************************************************************)
\* lines 157-160
get_user_info(t) ==
    _request(t, "get_user_info", << >>, "", <<"GET_USER_INFO", api_token>>,
             METH_GET, None)

\* lines 164-167: box_id does not reach the URL
get_transactions(t, box_id) ==
    _request(t, "get_transactions", << >>, "", <<"GET_TRANSACTIONS", api_token>>,
             METH_GET, None)

\* lines 171-174
get_evse_info(t) ==
    _request(t, "get_evse_info", << >>, "", <<"GET_EVSE_INFO", api_token>>,
             METH_GET, None)

\* lines 178-181
get_energitillaeg(t) ==
    _request(t, "get_energitillaeg", << >>, "", <<"GET_ENERGITILLAEG", api_token>>,
             METH_GET, None)

\* lines 161-162, 168-169, 175-176, 182-183
query_resume(op, resp) ==
    Return(parse_obj(CASE op = "get_user_info" -> "UserInfo"
                       [] op = "get_transactions" -> "Transactions"
                       [] op = "get_evse_info" -> "EvseInfo"
                       [] OTHER -> "Energitillaeg", resp))

\* the rest of the method that awaited _request, given the decoded body
Resume(c, resp) ==
    CASE c.op = "send_auth_email" -> send_auth_email_resume(resp)
      [] c.op = "verify_link" -> verify_link_resume(c.secret_code, resp)
      [] c.op = "obtain_user_secret" -> obtain_user_secret_resume(resp)
      [] c.op = "obtain_api_token" -> obtain_api_token_resume(resp)
      [] OTHER -> query_resume(c.op, resp)

(***************************************************************************)
(* _request after its awaits                                               *)
(***************************************************************************)
\* the method ends: it returns or raises res to its caller
Finish(t, c, where, e, resp, res) ==
    /\ pc' = [pc EXCEPT ![t] = "idle"]
    /\ call' = [call EXCEPT ![t] = NoCall]
    /\ Observe(t, c, where, e, resp, res)
    /\ UNCHANGED <<request_timeout, session, _close_session, api_token, ctor,
                   callers, observed, scope, target, created, sessionCloseCalls,
                   closeCalls>>

\* an exception e leaves the try block during the await named where
Fail(t, where, e) ==
    Finish(t, [call[t] EXCEPT !.requests = RequestsAfterFailure(call[t], e)],
           where, e, None, _request_except(e))

\* lines 67-72 raise: the timeout expires, or the transport fails
RequestFails(t, e) ==
    /\ pc[t] = "request"
    /\ Fail(t, "request", e)

\* line 73: the response carries an error status; raise_for_status() raises
StatusFails(t) ==
    /\ pc[t] = "request"
    /\ Fail(t, "status", StatusError)

\* lines 73-75: the status is a success; _request awaits response.json()
ResponseOk(t) ==
    /\ pc[t] = "request"
    /\ pc' = [pc EXCEPT ![t] = "json"]
    /\ UNCHANGED <<request_timeout, session, _close_session, api_token, ctor,
                   callers, observed, call, done, scope, target, created,
                   sessionCloseCalls, closeCalls>>

\* line 75 raises: the timeout expires, the body is no JSON, the peer resets
JsonFails(t, e) ==
    /\ pc[t] = "json"
    /\ Fail(t, "json", e)

\* lines 75-77: the body is decoded and returned; the calling method goes on
JsonDecoded(t, resp) ==
    /\ pc[t] = "json"
    /\ Finish(t, call[t], "json", NoExc, resp, Resume(call[t], resp))

Next ==
    \/ \E t \in callers, email \in Emails : send_auth_email(t, email)
    \/ \E t \in callers, auth_link \in Links, email \in Emails :
           verify_link(t, auth_link, email)
    \/ \E t \in callers, email \in Emails, first_name \in Names, last_name \in Names,
          secret_code \in Codes :
           obtain_user_secret(t, email, first_name, last_name, secret_code)
    \/ \E t \in callers, user_secret \in Secrets, email \in Emails :
           obtain_api_token(t, user_secret, email)
    \/ \E t \in callers : get_user_info(t)
    \/ \E t \in callers, box_id \in {NoneStr} : get_transactions(t, box_id)
    \/ \E t \in callers : get_evse_info(t)
    \/ \E t \in callers : get_energitillaeg(t)
    \/ \E t \in callers : close(t)
    \/ \E t \in callers : Enter(t)
    \/ \E t \in callers, raised \in BOOLEAN : __aexit__(t, raised)
    \/ \E t \in callers : CloseReturns(t)
    \/ \E t \in callers, e \in RequestFailures : RequestFails(t, e)
    \/ \E t \in callers : StatusFails(t)
    \/ \E t \in callers : ResponseOk(t)
    \/ \E t \in callers, e \in JsonFailures : JsonFails(t, e)
    \/ \E t \in callers, resp \in Responses : JsonDecoded(t, resp)

Spec == Init /\ [][Next]_vars

(***************************************************************************)
(* Properties                                                              *)
(***************************************************************************)
Left == {"left", "left_raise"}

\* the component holds a session it constructed itself
OwnSession == session # NoSession /\ session # ExtSession

\* the first secretCode parameter of a link's query string
SecretCodeOf(link) ==
    LET i == CHOOSE i \in 1 .. Len(link) :
                 /\ link[i][1] = "secretCode"
                 /\ \A j \in 1 .. (i - 1) : link[j][1] # "secretCode"
    IN  link[i][2]

\* C1: a component constructed with a caller's session and the default
\* ownership flag never calls close on that session and never replaces it,
\* whatever requests, close() calls and scope exits have happened.
C1_ExternalSessionUntouched ==
    (ctor.session = ExtSession /\ ctor._close_session = FALSE)
        => /\ session = ExtSession
           /\ sessionCloseCalls[ExtSession] = 0
           /\ created = 0

C1_Witness ==
    /\ ctor.session = ExtSession
    /\ ctor._close_session = FALSE
    /\ closeCalls >= 2
    /\ scope["t1"] = "left_raise"
    /\ done["t1"].result.type = "CleverConnectionError"

\* C2 as stated: a component that created its own session invokes that
\* session's close exactly once over any sequence with two or more close()
\* calls.
C2_ClosedExactlyOnce ==
    (ctor.session = NoSession /\ OwnSession /\ closeCalls >= 2)
        => sessionCloseCalls[session] = 1

\* C2 as amended: a component that created its own session invokes that
\* session's close once for every close() call (or scope exit) made while it
\* holds the session, so two such calls give two invocations.
C2_ClosedOncePerCloseCall ==
    (ctor.session = NoSession /\ OwnSession)
        => sessionCloseCalls[session] = closeCalls

C2_Witness ==
    /\ ctor.session = NoSession
    /\ OwnSession
    /\ closeCalls = 2
    /\ sessionCloseCalls[session] = 2
    /\ \A t \in Tasks : pc[t] = "idle"

\* C3: entering a scope hands the body the component itself and changes no
\* state of the component; when a scope is left, on the normal path or with
\* an error raised in the body, close() has run, so a session the component
\* owns has been closed by then.
C3_ScopeExitCloses ==
    [][\A t \in Tasks :
          /\ (scope[t] # "in" /\ scope'[t] = "in")
                => /\ target'[t] = Self
                   /\ UNCHANGED <<request_timeout, session, _close_session,
                                  api_token, created, sessionCloseCalls>>
          /\ (scope[t] \notin Left /\ scope'[t] \in Left)
                => ((session' # NoSession /\ _close_session')
                       => sessionCloseCalls'[session'] >= 1)]_vars

C3_Witness ==
    /\ scope["t1"] = "left_raise"
    /\ done["t1"].result.type = "CleverError"
    /\ OwnSession
    /\ _close_session
    /\ sessionCloseCalls[session] = 1

\* C4: a request whose response, status check and body decode included, does
\* not complete within the timeout raises CleverConnectionError with the
\* fixed message, and every invocation of the request primitive makes exactly
\* one HTTP call, whatever its outcome.
C4_TimeoutTranslatedNoRetry ==
    \A t \in Tasks :
        /\ done[t].exc.type = "TimeoutError"
              => done[t].result =
                     Raise("CleverConnectionError",
                           "Timeout while connecting to Clever backend")
        /\ pc[t] \in {"request", "json"} => call[t].requests = 1
        /\ done[t].phase # "" => done[t].call.requests = 1

C4_Witness ==
    /\ done["t1"].exc.type = "TimeoutError"
    /\ done["t1"].phase = "json"
    /\ done["t1"].result.type = "CleverConnectionError"
    /\ done["t1"].call.requests = 1

\* C5: a failure of a request other than a timeout reaches the caller as the
\* same error, unchanged: the call raises it and returns nothing, and a
\* connection error is raised for a timeout only.
C5_OtherFailuresUnchanged ==
    \A t \in Tasks :
        /\ (done[t].exc # NoExc /\ done[t].exc.type # "TimeoutError")
              => /\ done[t].result.kind = "raise"
                 /\ done[t].result.type = done[t].exc.type
                 /\ done[t].result.msg = done[t].exc.msg
                 /\ done[t].result.type \notin {"CleverConnectionError", "CleverError"}
        /\ done[t].result.type = "CleverConnectionError"
              => done[t].exc.type = "TimeoutError"

C5_Witness ==
    /\ done["t1"].exc = StatusError
    /\ done["t1"].phase = "status"
    /\ done["t1"].result = Raise("ClientResponseError", "404")

\* the decoded body has a data payload
HasData(resp) == Has(resp, "data") /\ resp.data # None

\* C6 as stated: verify_link returns only for a result of exactly
\* "Verified", with the link's secretCode as the returned secret code, and
\* raises a domain error carrying the result string otherwise; for a response
\* of the shape {"result": r} this holds for every r.
C6_VerifyLinkFlatResult ==
    \A t \in Tasks :
        (done[t].call.op = "verify_link" /\ Has(done[t].resp, "result"))
            => IF done[t].resp.result = "Verified"
               THEN /\ done[t].result.kind = "return"
                    /\ done[t].result.value.secret_code
                           = SecretCodeOf(done[t].call.auth_link)
               ELSE done[t].result = Raise("CleverError", done[t].resp.result)

\* C6 as amended: the result verify_link tests is the one in the response's
\* data payload. It returns only when that result is exactly "Verified", and
\* the returned secret code is the link's secretCode parameter; for a
\* response of the shape {"data": {"result": r}} with any other r it raises
\* a domain error whose message is r.
C6_VerifyLinkDataResult ==
    \A t \in Tasks :
        done[t].call.op = "verify_link"
            => /\ done[t].result.kind = "return"
                     => /\ HasData(done[t].resp)
                        /\ Has(done[t].resp.data, "result")
                        /\ done[t].resp.data.result = "Verified"
                        /\ done[t].result.value.data = done[t].resp.data
                        /\ done[t].result.value.secret_code
                               = SecretCodeOf(done[t].call.auth_link)
               /\ (HasData(done[t].resp) /\ Has(done[t].resp.data, "result"))
                     => IF done[t].resp.data.result = "Verified"
                        THEN done[t].result.kind = "return"
                        ELSE done[t].result
                                 = Raise("CleverError", done[t].resp.data.result)

C6_Witness ==
    /\ done["t1"].call.op = "verify_link"
    /\ done["t1"].call.auth_link = << <<"email", "a@b.dk">>, <<"secretCode", "c2">> >>
    /\ done["t1"].resp = [data |-> [result |-> "Verified"]]
    /\ done["t1"].result.kind = "return"
    /\ done["t1"].result.value.secret_code = "c2"

C8_ApiTokenNeedsData ==
    \A t \in Tasks :
        (done[t].call.op = "obtain_api_token" /\ done[t].phase = "json"
             /\ done[t].exc = NoExc)
            => IF HasData(done[t].resp)
               THEN /\ done[t].result.kind = "return"
                    /\ done[t].result.value.data = done[t].resp.data
               ELSE /\ done[t].result.kind = "raise"
                    /\ done[t].result.type = "CleverError"
                    /\ Has(done[t].resp, "status_message")
                          => done[t].result.msg = done[t].resp.status_message

C8_Witness ==
    /\ done["t1"].call.op = "obtain_api_token"
    /\ done["t1"].resp = [data |-> None, status_message |-> "No token"]
    /\ done["t1"].result = Raise("CleverError", "No token")

\* C9: no step of the component writes the timeout or the API token, and the
\* session reference and the ownership flag are written only by the request
\* that creates the session lazily; a query in flight carries the token the
\* component held when it was called.
C9_NoStateBetweenCalls ==
    [][/\ request_timeout' = request_timeout
       /\ api_token' = api_token
       /\ (session' # session \/ _close_session' # _close_session)
             => /\ session = NoSession
                /\ session' # NoSession
                /\ _close_session' = TRUE
                /\ \E t \in Tasks : pc[t] = "idle" /\ pc'[t] = "request"
       /\ \A t \in Tasks :
             call'[t].op \in {"get_user_info", "get_transactions", "get_evse_info",
                              "get_energitillaeg"}
                => call'[t].url[2] = api_token]_vars

C9_Witness ==
    /\ callers = Tasks
    /\ created = 1
    /\ pc["t1"] = "json"
    /\ call["t1"].op = "obtain_api_token"
    /\ pc["t2"] = "request"
    /\ call["t2"].op = "get_user_info"
    /\ call["t2"].url = <<"GET_USER_INFO", "tok">>

\* C10: a component constructed without a session creates at most one
\* session, whatever the interleaving of requests, close() calls and scope
\* exits: the session exists exactly when one was created, it is the one the
\* first request created together with the ownership flag, and nothing
\* afterwards resets the reference or the flag.
C10_AtMostOneSession ==
    ctor.session = NoSession
        => /\ created <= 1
           /\ (created = 0) = (session = NoSession)
           /\ created = 0 => _close_session = ctor._close_session
           /\ created = 1 => (session = ClientSession(0) /\ _close_session = TRUE)

C10_Witness ==
    /\ callers = Tasks
    /\ ctor.session = NoSession
    /\ ctor._close_session = FALSE
    /\ created = 1
    /\ sessionCloseCalls[session] >= 1
    /\ scope["t1"] = "left_raise"
    /\ pc["t1"] = "request"
    /\ pc["t2"] = "json"

====
